---- MODULE Spec2Model ----
(***************************************************************************)
(* A model of dhi_eol_detector.py: the reference parser, the label         *)
(* retrieval with its single pull-and-retry, the hardened-image detection, *)
(* the tag-definition matching, the EOL date arithmetic and the linear     *)
(* flow of run().                                                          *)
(*                                                                         *)
(* Python strings are sequences of one-character strings, so that          *)
(* startswith, split, rsplit and slicing are computed as Python computes   *)
(* them.  Text that is only printed is kept as TLA+ strings.               *)
(* An optional value (str | None) is a record [some, v].                   *)
(***************************************************************************)
EXTENDS Integers, Sequences, FiniteSets, TLC

VARIABLES
    pc,               \* position in the flow being modelled
    ref_in,           \* parse_image_reference: the parts the reference was built from
    image_ref,        \* parse_image_reference: its argument
    parsed,           \* parse_image_reference: its result (repository, tag)
    creds,            \* DOCKER_USERNAME and DOCKER_PAT are both set
    calls,            \* external calls made so far with their results, in order
    labels,           \* run: labels returned by get_image_labels
    dhi_repo,         \* run: repository returned by extract_dhi_info
    dhi_version,      \* run: version returned by extract_dhi_info
    tag_to_match,     \* find_matching_tag_definition: its tag argument
    tag_definitions,  \* tag definitions returned by the catalog
    matched_def,      \* index of the matched definition, 0 for None
    eol,              \* endOfLife of the matched definition
    today,            \* date.today() as read by run
    out,              \* lines printed so far
    exit_status       \* "running", "exit0" or "exit1"

vars == <<pc, ref_in, image_ref, parsed, creds, calls, labels, dhi_repo,
          dhi_version, tag_to_match, tag_definitions, matched_def, eol,
          today, out, exit_status>>

----------------------------------------------------------------------------
(* Bounds of the model.                                                    *)

MaxRepoLen == 3      \* longest generated repository name
MaxTagLen == 2       \* longest generated tag
MaxAliases == 2      \* most tag aliases per definition
MaxDefs == 2         \* most tag definitions in a catalog answer
MaxRunDefs == 2      \* most tag definitions in a catalog answer seen by run
MinYear == 2024      \* first year of generated EOL dates
MaxYear == 2028      \* last year of generated EOL dates

----------------------------------------------------------------------------
(* Optional values and Python string operations.                           *)

None == [some |-> FALSE, v |-> <<>>]
Some(x) == [some |-> TRUE, v |-> x]

\* `not x` for x : str | None
Falsy(x) == ~x.some \/ x.v = <<>>

\* All sequences over S of length at most n
SeqsUpTo(S, n) == UNION {[1..k -> S] : k \in 0..n}

\* s.startswith(p)
StartsWith(s, p) == Len(p) <= Len(s) /\ SubSeq(s, 1, Len(p)) = p

\* positions at which sep occurs in s
Occurrences(s, sep) ==
    {i \in 1..(Len(s) - Len(sep) + 1) : SubSeq(s, i, i + Len(sep) - 1) = sep}

\* sep in s
Contains(s, sep) == Occurrences(s, sep) # {}

Min(S) == CHOOSE x \in S : \A y \in S : x <= y
Max(S) == CHOOSE x \in S : \A y \in S : x >= y

\* s.split(sep)[0]
SplitFirst(s, sep) ==
    IF Contains(s, sep) THEN SubSeq(s, 1, Min(Occurrences(s, sep)) - 1) ELSE s

\* s.split(sep)[-1]: occurrences are consumed left to right, without overlap
RECURSIVE SplitLast(_, _)
SplitLast(s, sep) ==
    IF Contains(s, sep)
    THEN SplitLast(SubSeq(s, Min(Occurrences(s, sep)) + Len(sep), Len(s)), sep)
    ELSE s

\* s.rstrip(c)
RECURSIVE RStrip(_, _)
RStrip(s, c) ==
    IF s # <<>> /\ s[Len(s)] = c THEN RStrip(SubSeq(s, 1, Len(s) - 1), c) ELSE s

\* s.strip(): whitespace removed at both ends
RECURSIVE LStripSpace(_)
LStripSpace(s) == IF s # <<>> /\ s[1] = " " THEN LStripSpace(Tail(s)) ELSE s
Strip(s) == RStrip(LStripSpace(s), " ")

\* s[:n]
Slice(s, n) == SubSeq(s, 1, IF Len(s) < n THEN Len(s) ELSE n)

----------------------------------------------------------------------------
(* parse_image_reference                                                   *)

S_library == <<"l", "i", "b", "r", "a", "r", "y", "/">>
S_docker_io == <<"d", "o", "c", "k", "e", "r", ".", "i", "o", "/">>
S_index == <<"i", "n", "d", "e", "x", ".">>

\* the tuple of registry prefixes, in the order the loop tries them
RegistryPrefixes ==
    << S_docker_io \o S_library, S_docker_io,
       S_index \o S_docker_io \o S_library, S_index \o S_docker_io >>

\* the for loop with its break: the first prefix that matches is removed
StripRegistryPrefix(ref) ==
    LET hits == {i \in 1..Len(RegistryPrefixes) : StartsWith(ref, RegistryPrefixes[i])}
    IN  IF hits = {} THEN ref
        ELSE SubSeq(ref, Len(RegistryPrefixes[Min(hits)]) + 1, Len(ref))

\* if "@" in ref: ref = ref.split("@")[0]
StripDigest(ref) == SplitFirst(ref, <<"@">>)

\* if ":" in ref: ref, tag = ref.rsplit(":", 1)
SplitTag(ref) ==
    IF Contains(ref, <<":">>)
    THEN LET i == Max(Occurrences(ref, <<":">>))
         IN  <<SubSeq(ref, 1, i - 1), Some(SubSeq(ref, i + 1, Len(ref)))>>
    ELSE <<ref, None>>

\* if ref.startswith("library/"): ref = ref[len("library/"):]
StripLibrary(ref) ==
    IF StartsWith(ref, S_library) THEN SubSeq(ref, Len(S_library) + 1, Len(ref)) ELSE ref

\* a parser that splits the tag before it drops the digest
ParseTagBeforeDigest(ref_arg) ==
    LET st == SplitTag(StripRegistryPrefix(Strip(ref_arg)))
    IN  <<StripLibrary(StripDigest(st[1])), st[2]>>

parse_image_reference(ref_arg) ==
    LET st == SplitTag(StripDigest(StripRegistryPrefix(Strip(ref_arg))))
    IN  <<StripLibrary(st[1]), st[2]>>

----------------------------------------------------------------------------
(* find_matching_tag_definition                                            *)

S_latest == <<"l", "a", "t", "e", "s", "t">>

\* td.get("tagNames") or []
TagNames(td) == IF td.tagNames.some THEN td.tagNames.v ELSE <<>>

\* x in seq
In(x, seq) == \E i \in 1..Len(seq) : seq[i] = x

\* index of the first definition a loop returns, 0 when it returns none
FirstOf(hits) == IF hits = {} THEN 0 ELSE Min(hits)

\* the definitions each loop would return
LatestDefs(defs) == {i \in 1..Len(defs) : In(S_latest, TagNames(defs[i]))}

\* the branch taken when no tag is given: "latest", else the first item
LatestOrFirst(defs) ==
    IF LatestDefs(defs) # {} THEN FirstOf(LatestDefs(defs))
    ELSE IF defs # <<>> THEN 1 ELSE 0

ExactMatch(t, td) == In(t, TagNames(td))

PrefixMatch(t, td) ==
    \E i \in 1..Len(TagNames(td)) :
        StartsWith(TagNames(td)[i], t) \/ StartsWith(t, TagNames(td)[i])

ExactDefs(t, defs) == {i \in 1..Len(defs) : ExactMatch(t, defs[i])}
PrefixDefs(t, defs) == {i \in 1..Len(defs) : PrefixMatch(t, defs[i])}

\* a matcher with a single loop: the first definition matching either way wins
FindFirstEitherWay(tag, defs) ==
    IF Falsy(tag) THEN LatestOrFirst(defs)
    ELSE FirstOf(ExactDefs(tag.v, defs) \cup PrefixDefs(tag.v, defs))

\* a matcher that applies the "latest"/first-item fallback to a given tag too
FindWithFallback(tag, defs) ==
    IF Falsy(tag) THEN LatestOrFirst(defs)
    ELSE IF ExactDefs(tag.v, defs) # {} THEN FirstOf(ExactDefs(tag.v, defs))
    ELSE IF PrefixDefs(tag.v, defs) # {} THEN FirstOf(PrefixDefs(tag.v, defs))
    ELSE LatestOrFirst(defs)

\* the result is the index of the returned definition, 0 for None
find_matching_tag_definition(tag, defs) ==
    IF Falsy(tag) THEN LatestOrFirst(defs)
    ELSE IF ExactDefs(tag.v, defs) # {} THEN FirstOf(ExactDefs(tag.v, defs))
    ELSE FirstOf(PrefixDefs(tag.v, defs))

----------------------------------------------------------------------------
(* Calendar dates: datetime.strptime(..., "%Y-%m-%d").date() and the       *)
(* subtraction of two dates.                                               *)

DaysPerYear == 365    \* divmod(abs_days, 365)
DaysPerMonth == 30    \* divmod(rem, 30)
EolDateLen == 10      \* eol[:10]

DigitChars == <<"0", "1", "2", "3", "4", "5", "6", "7", "8", "9">>
IsDigits(s) == \A i \in 1..Len(s) : In(s[i], DigitChars)
DigitValue(c) == (CHOOSE i \in 1..10 : DigitChars[i] = c) - 1

RECURSIVE ToInt(_)
ToInt(s) == IF s = <<>> THEN 0
            ELSE 10 * ToInt(SubSeq(s, 1, Len(s) - 1)) + DigitValue(s[Len(s)])

IsLeap(y) == (y % 4 = 0 /\ y % 100 # 0) \/ y % 400 = 0

DaysInMonth(y, m) ==
    IF m = 2 THEN (IF IsLeap(y) THEN 29 ELSE 28)
    ELSE IF m \in {4, 6, 9, 11} THEN 30 ELSE 31

RECURSIVE DaysBeforeMonth(_, _)
DaysBeforeMonth(y, m) ==
    IF m <= 1 THEN 0 ELSE DaysBeforeMonth(y, m - 1) + DaysInMonth(y, m - 1)

\* date.toordinal(): days since 0001-01-01, that day being 1
Ordinal(dt) ==
    LET p == dt.y - 1
    IN  p * 365 + p \div 4 - p \div 100 + p \div 400
        + DaysBeforeMonth(dt.y, dt.m) + dt.d

\* strptime: \d\d\d\d - (1[0-2]|0[1-9]|[1-9]) - (3[01]|[12]\d|0[1-9]|[1-9]),
\* matching the whole string, then the date must exist.  ok = FALSE stands
\* for the ValueError.
BadDate == [ok |-> FALSE, y |-> 0, m |-> 0, d |-> 0]

Strptime(s) ==
    LET dashes == Occurrences(s, <<"-">>)
    IN  IF Cardinality(dashes) # 2 THEN BadDate
        ELSE LET i == Min(dashes)
                 j == Max(dashes)
                 Y == SubSeq(s, 1, i - 1)
                 M == SubSeq(s, i + 1, j - 1)
                 D == SubSeq(s, j + 1, Len(s))
             IN  IF /\ Len(Y) = 4 /\ IsDigits(Y) /\ ToInt(Y) >= 1
                    /\ Len(M) \in {1, 2} /\ IsDigits(M) /\ ToInt(M) \in 1..12
                    /\ Len(D) \in {1, 2} /\ IsDigits(D)
                    /\ ToInt(D) \in 1..DaysInMonth(ToInt(Y), ToInt(M))
                 THEN [ok |-> TRUE, y |-> ToInt(Y), m |-> ToInt(M), d |-> ToInt(D)]
                 ELSE BadDate

\* (eol_date - today).days
DeltaDays(eol_date, now) == Ordinal(eol_date) - Ordinal(now)

----------------------------------------------------------------------------
(* The EOL block of run.  A JSON value is [kind, s]: kind is "null",       *)
(* "str", "num" (non-zero), "list" (non-empty) or "dict" (non-empty), and  *)
(* s holds the characters of a string.                                     *)

JNull == [kind |-> "null", s |-> <<>>]
JStr(s) == [kind |-> "str", s |-> s]
JOther(k) == [kind |-> k, s |-> <<>>]

\* `if eol:`
Truthy(j) == j.kind # "null" /\ ~(j.kind = "str" /\ j.s = <<>>)

\* years, rem = divmod(n, 365); months, days = divmod(rem, 30)
BreakdownMonthsOfWhole(n) ==
    [years |-> n \div DaysPerYear,
     months |-> n \div DaysPerMonth,
     days |-> n % DaysPerMonth]

Breakdown(n) ==
    [years |-> n \div DaysPerYear,
     months |-> (n % DaysPerYear) \div DaysPerMonth,
     days |-> (n % DaysPerYear) % DaysPerMonth]

\* f"{n} year{'s' if n != 1 else ''}"
Counted(n, unit) == ToString(n) \o " " \o unit \o (IF n # 1 THEN "s" ELSE "")

\* the parts list: a component is appended only when it is non-zero
Parts(b) ==
    (IF b.years # 0 THEN <<Counted(b.years, "year")>> ELSE <<>>)
    \o (IF b.months # 0 THEN <<Counted(b.months, "month")>> ELSE <<>>)
    \o (IF b.days # 0 THEN <<Counted(b.days, "day")>> ELSE <<>>)

\* ', '.join(parts)
RECURSIVE JoinComma(_)
JoinComma(parts) ==
    IF parts = <<>> THEN ""
    ELSE IF Len(parts) = 1 THEN parts[1]
    ELSE parts[1] \o ", " \o JoinComma(Tail(parts))

Line(kind, text) == [kind |-> kind, text |-> text]

NoDate == [y |-> 0, m |-> 0, d |-> 0]

\* values date.today() takes in the model
Todays == {[y |-> 2026, m |-> 11, d |-> 1],
           [y |-> 2024, m |-> 2, d |-> 29],
           [y |-> 2027, m |-> 12, d |-> 31]}

\* the branch on delta.days and the line it prints
DateLine(dt, now) ==
    LET delta == DeltaDays(dt, now)
    IN  IF delta < 0
        THEN Line("past_eol", JoinComma(Parts(Breakdown(0 - delta))))
        ELSE Line("remaining", JoinComma(Parts(Breakdown(delta))))

\* The outcomes of the block for one endOfLife value: the lines printed,
\* the date read as today (NoDate when date.today() is not reached) and
\* whether an exception leaves run.  strptime raises ValueError, a number
\* raises TypeError on eol[:10] and a list raises it in strptime: all are
\* caught and nothing is printed.  A dict raises TypeError (unhashable
\* slice, caught) or, where slices are hashable, KeyError (not caught):
\* both outcomes are possible.
EolOutcomes(j) ==
    IF ~Truthy(j)
    THEN {[lines |-> <<Line("no_eol", "")>>, now |-> NoDate, raised |-> FALSE]}
    ELSE IF j.kind = "str"
    THEN LET dt == Strptime(Slice(j.s, EolDateLen))
         IN  IF dt.ok
             THEN {[lines |-> <<Line("eol", ""), DateLine(dt, t)>>,
                    now |-> t, raised |-> FALSE] : t \in Todays}
             ELSE {[lines |-> <<Line("eol", "")>>, now |-> NoDate, raised |-> FALSE]}
    ELSE IF j.kind = "dict"
    THEN {[lines |-> <<Line("eol", "")>>, now |-> NoDate, raised |-> r] : r \in BOOLEAN}
    ELSE {[lines |-> <<Line("eol", "")>>, now |-> NoDate, raised |-> FALSE]}

----------------------------------------------------------------------------
(* extract_dhi_info                                                        *)

K_url == "com.docker.dhi.url"
K_version == "com.docker.dhi.version"
K_other == "org.opencontainers.image.title"

\* labels.get(k)
Get(L, k) == IF k \in DOMAIN L THEN Some(L[k]) ELSE None

S_r == <<"/", "r", "/">>
S_http == <<"h", "t", "t", "p">>

\* the reduction of the URL label to a repository name
RepoFromUrl(url) ==
    LET repo == RStrip(url, "/")
    IN  IF Contains(repo, S_r) THEN SplitLast(repo, S_r)
        ELSE IF StartsWith(repo, S_http) THEN SplitLast(repo, <<"/">>)
        ELSE repo

\* a detection that keys on the version label instead of the URL label
ExtractByVersion(L) ==
    IF Falsy(Get(L, K_version)) THEN <<None, None>>
    ELSE <<Some(IF K_url \in DOMAIN L THEN RepoFromUrl(L[K_url]) ELSE <<"x">>),
           Get(L, K_version)>>

extract_dhi_info(L) ==
    LET url_label == Get(L, K_url)
        version_label == Get(L, K_version)
    IN  IF Falsy(url_label) THEN <<None, None>>
        ELSE <<Some(RepoFromUrl(url_label.v)), version_label>>

----------------------------------------------------------------------------
(* Inputs.                                                                 *)

\* values of the com.docker.dhi.url label
U_hub == <<"h", "t", "t", "p", "s", ":", "/", "/", "h", "u", "b", ".", "d", "o", "c", "k", "e", "r", ".", "c", "o", "m", "/", "r", "/", "d", "o", "c", "k", "e", "r", "/", "n", "g", "i", "n", "x", "-", "u", "n", "p", "r", "i", "v", "i", "l", "e", "g", "e", "d">>
U_site == <<"h", "t", "t", "p", "s", ":", "/", "/", "d", "h", "i", ".", "i", "o", "/", "n", "g", "i", "n", "x", "/">>
U_plain == <<"n", "g", "i", "n", "x">>
U_slash == <<"/">>
UrlValues == {<<>>, U_slash, U_hub, U_site, U_plain}

\* values of the com.docker.dhi.version label
VersionValues == {<<"1">>}

LabelValues(k) ==
    IF k = K_url THEN UrlValues
    ELSE IF k = K_version THEN VersionValues
    ELSE {<<"x">>}

\* every label set over the three keys
LabelSets ==
    UNION {{L \in [K -> UrlValues \cup VersionValues \cup {<<"x">>}] :
                \A k \in K : L[k] \in LabelValues(k)} :
           K \in SUBSET {K_url, K_version, K_other}}

\* what one `docker inspect` can do: print a label set, print null, exit
\* non-zero, print something that is not JSON, or fail to start
InspectResults ==
    {[kind |-> "labels", labels |-> L] : L \in LabelSets}
    \cup {[kind |-> k, labels |-> <<>>] :
            k \in {"null", "nonzero", "badjson", "oserror"}}

\* tag aliases, and the alias lists of at most n of them
AliasPool == <<<<"1">>, <<"1", ".", "2">>, <<"2">>, S_latest>>

AliasLists(n) ==
    {[i \in 1..Len(ix) |-> AliasPool[ix[i]]] :
        ix \in {x \in SeqsUpTo(1..Len(AliasPool), n) :
                    \A i \in 1..(Len(x) - 1) : x[i] < x[i + 1]}}

TagDef(names, e) == [tagNames |-> names, endOfLife |-> e]

\* versions handed to the matcher
MatchTags ==
    {None, Some(<<>>), Some(<<"1">>), Some(<<"1", ".", "2">>),
     Some(<<"1", ".", "2", ".", "3">>), Some(<<"3">>), Some(S_latest)}

MatchDefs ==
    SeqsUpTo({TagDef(n, JNull) : n \in {None} \cup {Some(a) : a \in AliasLists(MaxAliases)}},
             MaxDefs)

\* endOfLife values in the catalog answers seen by run
E_today == <<"2", "0", "2", "6", "-", "1", "1", "-", "0", "1">>
E_text == <<"u", "n", "k", "n", "o", "w", "n">>
RunEolValues ==
    {JNull, JStr(E_today), JStr(E_text), JOther("num"), JOther("list"), JOther("dict")}

RunDefs ==
    SeqsUpTo({TagDef(n, e) : n \in {None, Some(<<<<"1">>>>), Some(<<S_latest>>)},
                             e \in RunEolValues},
             MaxRunDefs)

\* what the catalog request can do: fail, or answer with tag definitions
\* (an answer without data, or with tagDefinitions null, counts as none)
CatalogAnswers ==
    {[kind |-> k, defs |-> <<>>] :
        k \in {"http_error", "network_error", "not_json", "data_null", "repo_null"}}
    \cup {[kind |-> "defs", defs |-> D] : D \in RunDefs}

\* endOfLife strings written from a year, a month and a day
Pad2(n) == <<DigitChars[(n \div 10) + 1], DigitChars[(n % 10) + 1]>>
Unpadded(n) == IF n < 10 THEN <<DigitChars[n + 1]>> ELSE Pad2(n)
Pad4(n) == Pad2(n \div 100) \o Pad2(n % 100)
S_midnight == <<"T", "0", "0", ":", "0", "0", ":", "0", "0", "Z">>

DateText(y, m, d, style) ==
    IF style = "iso" THEN Pad4(y) \o <<"-">> \o Pad2(m) \o <<"-">> \o Pad2(d)
    ELSE IF style = "iso_time"
    THEN Pad4(y) \o <<"-">> \o Pad2(m) \o <<"-">> \o Pad2(d) \o S_midnight
    ELSE IF style = "short"
    THEN Pad4(y) \o <<"-">> \o Unpadded(m) \o <<"-">> \o Unpadded(d)
    ELSE Pad4(y) \o <<"-">> \o Unpadded(m) \o <<"-">> \o Unpadded(d) \o S_midnight

EolValues ==
    {JStr(DateText(y, m, d, st)) :
        y \in MinYear..MaxYear, m \in 0..13, d \in 0..32,
        st \in {"iso", "iso_time", "short", "short_time"}}
    \cup {JNull, JStr(<<>>), JStr(E_text), JStr(<<"2", "0", "2", "6", "1", "1", "0", "1">>)}

\* image references: prefix, name, optional tag, optional digest
RefPrefixes ==
    {<<>>, S_library, S_docker_io, S_docker_io \o S_library,
     S_index \o S_docker_io, S_index \o S_docker_io \o S_library}

RefNames ==
    SeqsUpTo({"n", "/", "."}, MaxRepoLen)
    \cup {S_library \o <<"n">>, S_docker_io \o <<"n">>, <<"h", ":", "5", "/", "n">>}

RefTags == {None} \cup {Some(t) : t \in SeqsUpTo({"1", "."}, MaxTagLen)}
RefDigests == {None, Some(<<"s", "h", "a", "2", "5", "6", ":", "a", "b">>)}

BuildRef(parts) ==
    parts.prefix \o parts.name
    \o (IF parts.tag.some THEN <<":">> \o parts.tag.v ELSE <<>>)
    \o (IF parts.digest.some THEN <<"@">> \o parts.digest.v ELSE <<>>)

NoRef == [prefix |-> <<>>, name |-> <<>>, tag |-> None, digest |-> None]

----------------------------------------------------------------------------
(* get_image_labels: inspect, then one pull and one more inspect.          *)

parseVars == <<ref_in, image_ref, parsed>>
matchVars == <<tag_to_match, tag_definitions, matched_def>>
dhiVars == <<dhi_repo, dhi_version>>

\* one external call: docker inspect, docker pull, the token request or the
\* catalog request, with what came back
Call(op, result, L) == [op |-> op, result |-> result, labels |-> L]

Say(kind) == out' = Append(out, Line(kind, ""))

\* an exception leaves run: traceback, exit status 1
Raise == pc' = "done" /\ exit_status' = "exit1"

\* run returns and main with it: exit status 0
Return == pc' = "done" /\ exit_status' = "exit0"

\* first try block; a failure to start docker is not caught by it
Inspect ==
    /\ pc = "inspect"
    /\ \E o \in InspectResults :
          /\ calls' = Append(calls, Call("inspect", o.kind, o.labels))
          /\ IF o.kind \in {"labels", "null"}
             THEN /\ labels' = o.labels
                  /\ pc' = "detect"
                  /\ UNCHANGED <<out, exit_status>>
             ELSE IF o.kind = "oserror"
             THEN Raise /\ UNCHANGED <<labels, out>>
             ELSE /\ pc' = "pull"
                  /\ Say("info_pulling")
                  /\ UNCHANGED <<labels, exit_status>>
    /\ UNCHANGED <<creds, dhiVars, matchVars, eol, today, parseVars>>

\* a pull that is tried again when it fails
PullUntilDone ==
    /\ pc = "pull"
    /\ Len(calls) < 4
    /\ \E ok \in BOOLEAN :
          /\ calls' = Append(calls, Call("pull", IF ok THEN "ok" ELSE "nonzero", <<>>))
          /\ pc' = IF ok THEN "inspect2" ELSE "pull"
    /\ UNCHANGED <<labels, out, exit_status, creds, dhiVars, matchVars, eol,
                   today, parseVars>>

\* second try block: docker pull
Pull ==
    /\ pc = "pull"
    /\ \E ok \in BOOLEAN :
          /\ calls' = Append(calls, Call("pull", IF ok THEN "ok" ELSE "nonzero", <<>>))
          /\ IF ok THEN pc' = "inspect2" /\ UNCHANGED labels
             ELSE pc' = "detect" /\ labels' = <<>>
    /\ UNCHANGED <<out, exit_status, creds, dhiVars, matchVars, eol, today,
                   parseVars>>

\* second try block: the inspection after a successful pull
InspectAgain ==
    /\ pc = "inspect2"
    /\ \E o \in {r \in InspectResults : r.kind # "oserror"} :
          /\ calls' = Append(calls, Call("inspect", o.kind, o.labels))
          /\ labels' = IF o.kind = "labels" THEN o.labels ELSE <<>>
    /\ pc' = "detect"
    /\ UNCHANGED <<out, exit_status, creds, dhiVars, matchVars, eol, today,
                   parseVars>>

----------------------------------------------------------------------------
(* run                                                                     *)

\* `if not labels`, extract_dhi_info, `if not dhi_repo`
Detect ==
    /\ pc = "detect"
    /\ IF DOMAIN labels = {}
       THEN Say("fail_inspect") /\ Return /\ UNCHANGED dhiVars
       ELSE /\ dhi_repo' = extract_dhi_info(labels)[1]
            /\ dhi_version' = extract_dhi_info(labels)[2]
            /\ IF Falsy(extract_dhi_info(labels)[1])
               THEN Say("not_hardened") /\ Return
               ELSE Say("hardened") /\ pc' = "auth" /\ UNCHANGED exit_status
    /\ UNCHANGED <<calls, labels, creds, matchVars, eol, today, parseVars>>

\* get_jwt_token: sys.exit(1) without credentials, without a token in the
\* answer, and on any request error
Authenticate ==
    /\ pc = "auth"
    /\ IF ~creds
       THEN Say("fail_credentials") /\ Raise /\ UNCHANGED calls
       ELSE \E o \in {"token", "no_token", "request_error"} :
               /\ calls' = Append(calls, Call("auth", o, <<>>))
               /\ IF o = "token"
                  THEN Say("auth_ok") /\ pc' = "fetch" /\ UNCHANGED exit_status
                  ELSE Say("fail_auth") /\ Raise
    /\ UNCHANGED <<labels, creds, dhiVars, matchVars, eol, today, parseVars>>

\* fetch_eol_info through _graphql, and `if not tag_definitions`.  Nothing
\* catches raise_for_status, the request error, resp.json() or the
\* AttributeError of None.get when data or dhiRepository is null.
FetchEol ==
    /\ pc = "fetch"
    /\ \E a \in CatalogAnswers :
          /\ calls' = Append(calls, Call("graphql", a.kind, <<>>))
          /\ IF a.kind # "defs"
             THEN Raise /\ UNCHANGED <<out, tag_definitions>>
             ELSE IF a.defs = <<>>
             THEN Say("warn_no_definitions") /\ Return /\ UNCHANGED tag_definitions
             ELSE /\ tag_definitions' = a.defs
                  /\ pc' = "match"
                  /\ UNCHANGED <<out, exit_status>>
    /\ UNCHANGED <<labels, creds, dhiVars, tag_to_match, matched_def, eol,
                   today, parseVars>>

\* tag_to_match = dhi_version; matched_def = find_matching_tag_definition(...)
FindMatch ==
    /\ pc = "match"
    /\ tag_to_match' = dhi_version
    /\ matched_def' = find_matching_tag_definition(dhi_version, tag_definitions)
    /\ pc' = "matched"
    /\ UNCHANGED <<calls, labels, creds, dhiVars, tag_definitions, eol, today,
                   out, exit_status, parseVars>>

\* `if matched_def:` up to the EOL block, and the else branch.  join raises
\* TypeError on tagNames None, and so does None[:5]; neither is caught.
ReportMatch ==
    /\ pc = "matched"
    /\ IF matched_def # 0
       THEN IF ~tag_definitions[matched_def].tagNames.some
            THEN Raise /\ UNCHANGED <<out, eol>>
            ELSE /\ out' = out \o <<Line("matched", ""), Line("tags", "")>>
                 /\ eol' = tag_definitions[matched_def].endOfLife
                 /\ pc' = "eol"
                 /\ UNCHANGED exit_status
       ELSE /\ out' = out \o <<Line("warn_no_match", ""), Line("available", "")>>
            /\ IF \E i \in 1..Len(tag_definitions) : ~tag_definitions[i].tagNames.some
               THEN Raise
               ELSE Return
            /\ UNCHANGED eol
    /\ UNCHANGED <<calls, labels, creds, dhiVars, matchVars, today, parseVars>>

\* `if eol:` with its try block, the else branch and the return of run
ReportEol ==
    /\ pc = "eol"
    /\ \E o \in EolOutcomes(eol) :
          /\ out' = out \o o.lines
          /\ today' = o.now
          /\ IF o.raised THEN Raise ELSE Return
    /\ UNCHANGED <<calls, labels, creds, dhiVars, matchVars, eol, parseVars>>

\* parse_image_reference applied to a reference
ParseRef ==
    /\ pc = "parse"
    /\ parsed' = parse_image_reference(image_ref)
    /\ pc' = "parsed"
    /\ UNCHANGED <<ref_in, image_ref, creds, calls, labels, dhiVars, matchVars,
                   eol, today, out, exit_status>>

----------------------------------------------------------------------------
(* Specifications.                                                         *)

Idle ==
    /\ ref_in = NoRef /\ image_ref = <<>> /\ parsed = <<<<>>, None>>
    /\ calls = <<>> /\ labels = <<>>
    /\ dhi_repo = None /\ dhi_version = None
    /\ tag_to_match = None /\ tag_definitions = <<>> /\ matched_def = 0
    /\ eol = JNull /\ today = NoDate
    /\ out = <<>> /\ exit_status = "running"

\* run(image), from its first statement
Init ==
    /\ pc = "inspect"
    /\ creds \in BOOLEAN
    /\ Idle

Next ==
    \/ Inspect \/ Pull \/ InspectAgain \/ Detect \/ Authenticate
    \/ FetchEol \/ FindMatch \/ ReportMatch \/ ReportEol

Spec == Init /\ [][Next]_vars

\* find_matching_tag_definition on every version and list of definitions
InitMatch ==
    /\ pc = "match"
    /\ creds = TRUE
    /\ ref_in = NoRef /\ image_ref = <<>> /\ parsed = <<<<>>, None>>
    /\ calls = <<>> /\ labels = <<>> /\ dhi_repo = None
    /\ dhi_version \in MatchTags
    /\ tag_to_match = None
    /\ tag_definitions \in MatchDefs
    /\ matched_def = 0
    /\ eol = JNull /\ today = NoDate
    /\ out = <<>> /\ exit_status = "running"

NextMatch == FindMatch

SpecMatch == InitMatch /\ [][NextMatch]_vars

\* the EOL block of run on every endOfLife value
InitEol ==
    /\ pc = "eol"
    /\ creds = TRUE
    /\ ref_in = NoRef /\ image_ref = <<>> /\ parsed = <<<<>>, None>>
    /\ calls = <<>> /\ labels = <<>>
    /\ dhi_repo = None /\ dhi_version = None
    /\ tag_to_match = None /\ tag_definitions = <<>> /\ matched_def = 0
    /\ eol \in EolValues
    /\ today = NoDate
    /\ out = <<>> /\ exit_status = "running"

NextEol == ReportEol

SpecEol == InitEol /\ [][NextEol]_vars

\* parse_image_reference on every reference built from its parts
InitParse ==
    /\ pc = "parse"
    /\ creds = TRUE
    /\ ref_in \in [prefix : RefPrefixes, name : RefNames, tag : RefTags,
                   digest : RefDigests]
    /\ image_ref = BuildRef(ref_in)
    /\ parsed = <<<<>>, None>>
    /\ calls = <<>> /\ labels = <<>>
    /\ dhi_repo = None /\ dhi_version = None
    /\ tag_to_match = None /\ tag_definitions = <<>> /\ matched_def = 0
    /\ eol = JNull /\ today = NoDate
    /\ out = <<>> /\ exit_status = "running"

NextParse == ParseRef

SpecParse == InitParse /\ [][NextParse]_vars

----------------------------------------------------------------------------
(* Properties.  The helpers below restate the notions the properties use   *)
(* without going through the operators that model the functions.           *)

Last(seq) == seq[Len(seq)]

\* the aliases of a definition, as a set
AliasSet(td) ==
    IF td.tagNames.some THEN {td.tagNames.v[i] : i \in 1..Len(td.tagNames.v)} ELSE {}

IsPrefixOf(a, b) == Len(a) <= Len(b) /\ \A i \in 1..Len(a) : a[i] = b[i]

MatchesExactly(t, td) == t \in AliasSet(td)

MatchesByPrefix(t, td) ==
    \E a \in AliasSet(td) : IsPrefixOf(a, t) \/ IsPrefixOf(t, a)

ExactIndexes == {i \in 1..Len(tag_definitions) :
                    MatchesExactly(tag_to_match.v, tag_definitions[i])}

PrefixIndexes == {i \in 1..Len(tag_definitions) :
                    MatchesByPrefix(tag_to_match.v, tag_definitions[i])}

LatestIndexes == {i \in 1..Len(tag_definitions) : S_latest \in AliasSet(tag_definitions[i])}

\* "latest", else the first definition, else none
FallbackIndex ==
    IF LatestIndexes # {} THEN Min(LatestIndexes)
    ELSE IF tag_definitions # <<>> THEN 1 ELSE 0

VersionGiven == tag_to_match.some /\ tag_to_match.v # <<>>

\* C1 as stated: for every version and every list the matcher goes through
\* exact match, prefix match, then the definition with "latest", then the
\* first definition; the result is none only when the list is empty.
C1_FullFallbackChain ==
    pc = "matched" =>
        /\ matched_def =
              IF VersionGiven /\ ExactIndexes # {} THEN Min(ExactIndexes)
              ELSE IF VersionGiven /\ PrefixIndexes # {} THEN Min(PrefixIndexes)
              ELSE FallbackIndex
        /\ (matched_def = 0 => tag_definitions = <<>>)

\* C1 amended: the "latest"/first-definition fallback is applied only when
\* no version is given (None or empty), and then the result is none only
\* for an empty list; when a version is given and no definition matches it
\* exactly or by prefix the result is none, whatever the list holds.
C1_FallbackOnlyWithoutVersion ==
    pc = "matched" =>
        /\ (~VersionGiven => matched_def = FallbackIndex)
        /\ (~VersionGiven /\ matched_def = 0 => tag_definitions = <<>>)
        /\ (VersionGiven /\ ExactIndexes = {} /\ PrefixIndexes = {}
              => matched_def = 0)

C1_Witness ==
    /\ pc = "matched"
    /\ VersionGiven /\ ExactIndexes = {} /\ PrefixIndexes = {}
    /\ Len(tag_definitions) = 2 /\ LatestIndexes = {2}
    /\ matched_def = 0

\* C2: for a non-empty version, the first definition listing it exactly is
\* returned even when an earlier definition matches it by prefix only; a
\* definition matching by prefix is returned only when none matches exactly.
C2_ExactBeforePrefix ==
    (pc = "matched" /\ VersionGiven) =>
        /\ (ExactIndexes # {} => matched_def = Min(ExactIndexes))
        /\ (ExactIndexes = {} /\ PrefixIndexes # {} => matched_def = Min(PrefixIndexes))
        /\ (matched_def # 0 /\ matched_def \notin ExactIndexes => ExactIndexes = {})

C2_Witness ==
    /\ pc = "matched" /\ VersionGiven
    /\ Len(tag_definitions) = 2
    /\ 1 \in PrefixIndexes /\ 1 \notin ExactIndexes /\ 2 \in ExactIndexes
    /\ matched_def = 2

----------------------------------------------------------------------------

CallsOf(op) == {i \in 1..Len(calls) : calls[i].op = op}

LookupFailed ==
    \E i \in CallsOf("graphql") : calls[i].result # "defs"

Printed(kind) == \E i \in 1..Len(out) : out[i].kind = kind

\* C3: once the image is hardened and authentication succeeded, a failed
\* catalog lookup (HTTP error, network error, a body that is not JSON, null
\* data or repository) ends run with "no data" and exit status 0.
C3_LookupFailureExitsZero ==
    LookupFailed => (pc = "done" /\ exit_status = "exit0")

\* the day delta of the EOL block, for a string that parses
EolDate == Strptime(Slice(eol.s, EolDateLen))
EolDelta == DeltaDays(EolDate, today)
BreakdownPrinted ==
    /\ pc = "done" /\ Len(out) > 0
    /\ Last(out).kind \in {"past_eol", "remaining"}

\* C4: a day delta of 0 is rendered "0 days", and the rendered breakdown is
\* never empty.
C4_ZeroDeltaRendered ==
    BreakdownPrinted =>
        /\ Last(out).text # ""
        /\ (EolDelta = 0 => Last(out).text = "0 days")

\* the text the claim asks for: each non-zero component with its unit,
\* singular for 1 and plural otherwise, separated by ", "
Component(n, one, many) ==
    IF n = 0 THEN <<>>
    ELSE <<ToString(n) \o " " \o (IF n = 1 THEN one ELSE many)>>

ExpectedText(y, m, d) ==
    LET ps == Component(y, "year", "years") \o Component(m, "month", "months")
              \o Component(d, "day", "days")
    IN  IF Len(ps) = 0 THEN ""
        ELSE IF Len(ps) = 1 THEN ps[1]
        ELSE IF Len(ps) = 2 THEN ps[1] \o ", " \o ps[2]
        ELSE ps[1] \o ", " \o ps[2] \o ", " \o ps[3]

\* C5: for an EOL date with day delta d and n = |d|, the line printed is the
\* breakdown n div 365, (n mod 365) div 30, (n mod 365) mod 30, whose
\* weighted sum is n with fewer than 30 days; each non-zero component has
\* its unit in the singular for 1 and in the plural otherwise; 400 days is
\* "1 year, 1 month, 5 days"; the line is the past-EOL one exactly when d < 0.
C5_BreakdownRendered ==
    (pc = "done" /\ eol.kind = "str" /\ EolDate.ok) =>
        LET n == IF EolDelta < 0 THEN 0 - EolDelta ELSE EolDelta
            y == n \div 365
            m == (n % 365) \div 30
            d == (n % 365) % 30
        IN  /\ Len(out) = 2
            /\ y * 365 + m * 30 + d = n /\ d >= 0 /\ d < 30
            /\ out[2].text = ExpectedText(y, m, d)
            /\ (n = 400 => out[2].text = "1 year, 1 month, 5 days")
            /\ (out[2].kind = "past_eol" <=> EolDelta < 0)
            /\ (out[2].kind = "remaining" <=> EolDelta >= 0)

C5_Witness ==
    /\ pc = "done" /\ eol.kind = "str" /\ EolDate.ok
    /\ EolDelta = 0 - 400
    /\ out[2] = Line("past_eol", "1 year, 1 month, 5 days")

----------------------------------------------------------------------------

InspectFailed(i) == calls[i].op = "inspect" /\ calls[i].result \in {"nonzero", "badjson"}
InspectGave(i) == calls[i].op = "inspect" /\ calls[i].result \in {"labels", "null"}
PullFailed(i) == calls[i].op = "pull" /\ calls[i].result # "ok"

GotLabelsWithoutUrl ==
    /\ pc = "done"
    /\ \E i \in CallsOf("inspect") : InspectGave(i) /\ labels = calls[i].labels
    /\ (K_url \notin DOMAIN labels \/ labels[K_url] = <<>>)

NoRemoteCall == CallsOf("auth") = {} /\ CallsOf("graphql") = {}

AuthAfterDetection ==
    /\ \A i \in CallsOf("auth") :
          Printed("hardened") /\ K_url \in DOMAIN labels /\ labels[K_url] # <<>>
    /\ \A i \in CallsOf("graphql") :
          i > 1 /\ calls[i - 1] = Call("auth", "token", <<>>)

\* C7 as stated: every label set without the URL label, the empty one
\* included, ends in the "not hardened" result.
C7_NoUrlIsNotHardened ==
    /\ GotLabelsWithoutUrl =>
          /\ dhi_repo = None /\ dhi_version = None
          /\ Last(out).kind = "not_hardened"
          /\ NoRemoteCall /\ exit_status = "exit0"
    /\ AuthAfterDetection

\* C7 amended: every non-empty label set without the URL label (or with it
\* empty) makes extract_dhi_info return (None, None) and run end in the
\* "not hardened" result; the empty label set ends run earlier, in the
\* "could not inspect" result.  Either way no authentication request and no
\* catalog lookup is made and the exit status is 0, with or without
\* credentials.  Authentication follows a detection that reported hardened,
\* and the lookup follows a successful authentication.
C7_NoUrlEndsBeforeAuth ==
    /\ GotLabelsWithoutUrl =>
          /\ dhi_repo = None /\ dhi_version = None
          /\ Last(out).kind =
                IF DOMAIN labels = {} THEN "fail_inspect" ELSE "not_hardened"
          /\ NoRemoteCall /\ exit_status = "exit0"
    /\ AuthAfterDetection

C7_Witness ==
    /\ GotLabelsWithoutUrl
    /\ ~creds
    /\ K_version \in DOMAIN labels
    /\ Last(out).kind = "not_hardened" /\ exit_status = "exit0"

\* C8: a truthy endOfLife that is no string, or whose first 10 characters
\* are no calendar date, is reported with a warning, and run still ends
\* with exit status 0.
C8_MalformedDateWarned ==
    (pc = "done" /\ Truthy(eol) /\ (eol.kind # "str" \/ ~EolDate.ok)) =>
        (Printed("warn_malformed_date") /\ exit_status = "exit0")

S_separator == <<"/">>
S_scheme == <<":", "/", "/">>
S_unprivileged == <<"n", "g", "i", "n", "x", "-", "u", "n", "p", "r", "i", "v", "i", "l", "e", "g", "e", "d">>

\* C9: the repository extracted from a non-empty URL label is a bare name,
\* with no scheme, no host and no "/"; the hub URL of
\* docker/nginx-unprivileged gives nginx-unprivileged.
C9_BareRepositoryName ==
    (dhi_repo.some /\ K_url \in DOMAIN labels) =>
        /\ ~Contains(dhi_repo.v, S_separator)
        /\ ~Contains(dhi_repo.v, S_scheme)
        /\ (labels[K_url] = U_hub => dhi_repo.v = S_unprivileged)

\* the names the claim ranges over: no ":" or "@", no known prefix in front
PlainName(r) ==
    /\ ~Contains(r, <<":">>) /\ ~Contains(r, <<"@">>)
    /\ ~StartsWith(r, S_library)
    /\ ~StartsWith(r, S_docker_io)
    /\ ~StartsWith(r, S_index \o S_docker_io)

\* C10: r, library/r, docker.io/r, docker.io/library/r, index.docker.io/r
\* and index.docker.io/library/r, with ":t" and/or "@digest" appended, all
\* parse to (r, t), t being None when absent; the repository returned holds
\* no "@" and not the digest.
C10_SameRepositoryAndTag ==
    (pc = "parsed" /\ PlainName(ref_in.name)) =>
        /\ parsed = <<ref_in.name, ref_in.tag>>
        /\ ~Contains(parsed[1], <<"@">>)
        /\ (ref_in.digest.some => ~Contains(parsed[1], ref_in.digest.v))

C10_Witness ==
    /\ pc = "parsed"
    /\ ref_in.prefix = S_index \o S_docker_io \o S_library
    /\ ref_in.name = <<"n", "/", "n">>
    /\ ref_in.tag = Some(<<"1", ".">>) /\ ref_in.digest.some
    /\ parsed = <<<<"n", "/", "n">>, Some(<<"1", ".">>)>>

====
